---- MODULE Spec2Model ----
(***************************************************************************)
(* NR KITAP listings application (src/app.py): the record store (one CSV   *)
(* file), the per-listing photo directories, the session cookie (admin     *)
(* key and unlock list) and the request handlers over them.                *)
(*                                                                         *)
(* A character string is a sequence of tokens (a token is one character,   *)
(* or an indivisible group of characters such as ".jpg"): "" is <<>>,      *)
(* " k" is <<" ", "k">>, the listing id "AB" is <<"A", "B">>.  A CSV line  *)
(* is a sequence of fields, a field is a string.  A path is a sequence of  *)
(* segments, a segment is a string.                                        *)
(***************************************************************************)
EXTENDS Integers, Sequences, FiniteSets, TLC

VARIABLES
    adminKey,   \* ADMIN_KEY, read once from the environment
    csv,        \* SUBMISSIONS_CSV: [exists, lines]
    updirs,     \* names of the directories under UPLOADS_DIR
    upfiles,    \* <<directory, filename>> of the regular files under them
    session,    \* per browser: [admin_key, unlocked_cards]
    last,       \* the request handled last and its response
    tmp,        \* SUBMISSIONS_CSV.with_suffix(".tmp"): an inode number, 0 if absent
    live,       \* the inode SUBMISSIONS_CSV names, 0 if absent
    inodes,     \* inode number -> the lines of that file
    wk          \* per worker: the position in its read-modify-write request

vars == <<adminKey, csv, updirs, upfiles, session, last, tmp, live, inodes, wk>>
storeVars == <<csv, updirs, upfiles>>
raceVars == <<tmp, live, inodes, wk>>

(***************************************************************************)
(* Bounds of the model.                                                    *)
(***************************************************************************)
MaxRows == 1        \* listings in the store, with visitors and two browsers
MaxListings == 2    \* listings in the store, with the administrator alone
MaxUpload == 2      \* file parts in one multipart request
MaxOldRows == 2     \* rows of a store file found at start-up

----------------------------------------------------------------------------
(* Strings *)

RECURSIVE LStrip(_)
LStrip(s) == IF s # <<>> /\ Head(s) = " " THEN LStrip(Tail(s)) ELSE s

RECURSIVE RStrip(_)
RStrip(s) == IF s # <<>> /\ s[Len(s)] = " " THEN RStrip(SubSeq(s, 1, Len(s) - 1)) ELSE s

\* str.strip()
Strip(s) == RStrip(LStrip(s))

\* str.startswith
StartsWith(s, p) == Len(p) <= Len(s) /\ SubSeq(s, 1, Len(p)) = p

\* ord() of the first character of a token
TokRank(t) ==
    CASE t = " " -> 32
      [] t = ".." -> 46
      [] t = ".jpg" -> 46
      [] t = "/" -> 47
      [] t = ";" -> 59
      [] t = "A" -> 65
      [] t = "B" -> 66
      [] t = "_" -> 95
      [] t = "a" -> 97
      [] t = "b" -> 98
      [] t = "file" -> 102
      [] t = "photo" -> 112
      [] t = "r" -> 114
      [] OTHER -> 120

\* str.__lt__ : lexicographic order
RECURSIVE StrLess(_, _)
StrLess(a, b) ==
    IF b = <<>> THEN FALSE
    ELSE IF a = <<>> THEN TRUE
    ELSE IF Head(a) = Head(b) THEN StrLess(Tail(a), Tail(b))
    ELSE TokRank(Head(a)) < TokRank(Head(b))

\* sorted(set of strings)
RECURSIVE Sorted(_)
Sorted(S) ==
    IF S = {} THEN <<>>
    ELSE LET m == CHOOSE x \in S : \A y \in S \ {x} : StrLess(x, y)
         IN <<m>> \o Sorted(S \ {m})

\* ";".join(names)
RECURSIVE JoinSemi(_)
JoinSemi(names) ==
    IF names = <<>> THEN <<>>
    ELSE IF Len(names) = 1 THEN names[1]
    ELSE names[1] \o <<";">> \o JoinSemi(Tail(names))

\* s.split(";")
RECURSIVE SplitSemi(_)
SplitSemi(s) ==
    IF \A i \in 1..Len(s) : s[i] # ";" THEN <<s>>
    ELSE LET k == CHOOSE i \in 1..Len(s) : s[i] = ";" /\ \A j \in 1..(i - 1) : s[j] # ";"
         IN <<SubSeq(s, 1, k - 1)>> \o SplitSemi(SubSeq(s, k + 1, Len(s)))

Range(q) == {q[i] : i \in 1..Len(q)}

----------------------------------------------------------------------------
(* Record store *)

ID == <<"id">>
KIND == <<"kind">>
TITLE == <<"title">>
PRICE == <<"price_tenge">>
DESCRIPTION == <<"description">>
PHOTOS == <<"photos">>
PASSWORD == <<"password">>

\* _csv_columns()
Columns ==
    <<ID, <<"created_utc">>, KIND, TITLE, PRICE, <<"phone">>, DESCRIPTION, PHOTOS, PASSWORD>>

NoFile == [exists |-> FALSE, lines |-> <<>>]
File(lines) == [exists |-> TRUE, lines |-> lines]

\* _ensure_csv_header() appending the column to every header that differs
EnsureCsvHeaderAnyDiff(f) ==
    IF ~f.exists THEN File(<<Columns>>)
    ELSE IF f.lines = <<>> THEN File(<<Columns>>)
    ELSE LET header == f.lines[1]
         IN IF header = Columns THEN f
            ELSE File([i \in 1..Len(f.lines) |->
                         IF i = 1 THEN header \o <<PASSWORD>>
                         ELSE f.lines[i] \o << <<>> >>])

\* _ensure_csv_header(): the file it leaves
EnsureCsvHeader(f) ==
    IF ~f.exists THEN File(<<Columns>>)
    ELSE IF f.lines = <<>> THEN File(<<Columns>>)
    ELSE LET header == f.lines[1]
         IN IF header = Columns THEN f
            ELSE IF PASSWORD \notin Range(header)
                 THEN File([i \in 1..Len(f.lines) |->
                              IF i = 1 THEN header \o <<PASSWORD>>
                              ELSE f.lines[i] \o << <<>> >>])
                 ELSE f

\* _save_submission_row()
SaveSubmissionRow(f, sid, created, kind, title, price, phone, description, photos, password) ==
    LET g == EnsureCsvHeader(f)
    IN File(Append(g.lines,
                   <<sid, created, kind, title, price, phone, description,
                     JoinSemi(photos), password>>))

\* csv.DictReader: one row as a dict; a key the row is too short for reads as
\* None, which every reader below turns into "" (r.get(c) or "")
DictOf(header, line) ==
    LET n == IF Len(header) < Len(line) THEN Len(header) ELSE Len(line)
    IN [c \in {header[i] : i \in 1..n} |->
           line[CHOOSE i \in 1..n : header[i] = c /\ \A j \in (i + 1)..n : header[j] # c]]

\* (r.get(c) or "")
Get(r, c) == IF c \in DOMAIN r THEN r[c] ELSE <<>>

\* r[c] = v
Put(r, c, v) == [k \in DOMAIN r \cup {c} |-> IF k = c THEN v ELSE r[k]]

HasId(r) == Strip(Get(r, ID)) # <<>>

\* _read_all_rows()
ReadAllRows(f) ==
    IF ~f.exists \/ f.lines = <<>> THEN <<>>
    ELSE LET body == SelectSeq(Tail(f.lines), LAMBDA l : l # <<>>)
             dicts == [i \in 1..Len(body) |-> DictOf(f.lines[1], body[i])]
         IN SelectSeq(dicts, HasId)

\* the lines _write_all_rows() writes
RowLines(rows) ==
    <<Columns>> \o [i \in 1..Len(rows) |-> [j \in 1..Len(Columns) |-> Get(rows[i], Columns[j])]]

\* _write_all_rows(), one writer running alone
WriteAllRows(rows) == File(RowLines(rows))

\* _find_row(): the position of the first row with that id, 0 for None
FindRow(rows, sid) ==
    IF \E i \in 1..Len(rows) : Strip(Get(rows[i], ID)) = sid
    THEN CHOOSE i \in 1..Len(rows) :
            /\ Strip(Get(rows[i], ID)) = sid
            /\ \A j \in 1..(i - 1) : Strip(Get(rows[j], ID)) # sid
    ELSE 0

\* [p for p in photos_raw.split(";") if p] if photos_raw else []
PhotosOf(r) ==
    LET raw == Strip(Get(r, PHOTOS))
    IN IF raw = <<>> THEN <<>> ELSE SelectSeq(SplitSemi(raw), LAMBDA p : p # <<>>)

----------------------------------------------------------------------------
(* Photo store *)

UPLOADS_DIR == << <<"u">> >>

FilesIn(uf, d) == {f[2] : f \in {g \in uf : g[1] = d}}

\* _list_photos()
ListPhotos(ud, uf, sid) == IF sid \notin ud THEN <<>> ELSE Sorted(FilesIn(uf, sid))

\* Path.resolve(): ".." steps up, never above the root; there are no symlinks
RECURSIVE ResolveFrom(_, _)
ResolveFrom(done, rest) ==
    IF rest = <<>> THEN done
    ELSE IF Head(rest) = <<"..">>
         THEN ResolveFrom(IF done = <<>> THEN <<>> ELSE SubSeq(done, 1, Len(done) - 1), Tail(rest))
         ELSE IF Head(rest) = <<".">> THEN ResolveFrom(done, Tail(rest))
         ELSE ResolveFrom(Append(done, Head(rest)), Tail(rest))

Resolve(path) == ResolveFrom(<<>>, path)

\* str(path)
RECURSIVE PathStr(_)
PathStr(path) ==
    IF path = <<>> THEN <<>> ELSE <<"/">> \o Head(path) \o PathStr(Tail(path))

\* p.exists() and p.is_file(), for a resolved path
IsFile(uf, p) ==
    /\ Len(p) = Len(UPLOADS_DIR) + 2
    /\ SubSeq(p, 1, Len(UPLOADS_DIR)) = UPLOADS_DIR
    /\ <<p[Len(p) - 1], p[Len(p)]>> \in uf

\* the path check of admin_photo_delete(): TRUE when the request goes on
PhotoDeleteAllowed(sid, filename) ==
    LET p == Resolve(UPLOADS_DIR \o <<sid>> \o filename)
        base == Resolve(UPLOADS_DIR \o <<sid>>)
    IN StartsWith(PathStr(p), PathStr(base))

\* werkzeug secure_filename(): separators become "_", leading and trailing
\* dots and underscores are stripped
RECURSIVE StripDots(_)
StripDots(n) ==
    IF n # <<>> /\ Head(n) \in {"..", "_", "."} THEN StripDots(Tail(n)) ELSE n

SecureFilename(n) == StripDots([i \in 1..Len(n) |-> IF n[i] = "/" THEN "_" ELSE n[i]])

\* f"{target.stem}_{uuid.uuid4().hex[:6]}{target.suffix}"
Suffixed(n, hex) ==
    IF Len(n) > 1 /\ n[Len(n)] = ".jpg"
    THEN SubSeq(n, 1, Len(n) - 1) \o <<"_", hex, ".jpg">>
    ELSE n \o <<"_", hex>>

\* the loop that saves the uploaded files into one directory: the files the
\* directory holds afterwards and the names saved, in order
RECURSIVE SavePhotos(_, _, _, _)
SavePhotos(have, files, fallback, hex) ==
    IF files = <<>> THEN [files |-> have, saved |-> <<>>]
    ELSE LET safe == IF SecureFilename(Head(files).filename) = <<>>
                     THEN fallback ELSE SecureFilename(Head(files).filename)
             target == IF safe \in have THEN Suffixed(safe, hex) ELSE safe
             more == SavePhotos(have \cup {target}, Tail(files), fallback, hex)
         IN [files |-> more.files, saved |-> <<target>> \o more.saved]

\* files = [f for f in files if f and f.filename]
NamedFiles(files) == SelectSeq(files, LAMBDA f : f.filename # <<>>)

RECURSIVE TotalMB(_)
TotalMB(files) == IF files = <<>> THEN 0 ELSE Head(files).mb + TotalMB(Tail(files))

\* Upload policy (environment)
MAX_FILES == 1
MAX_TOTAL_MB == 2
MAX_FILE_MB == 1

\* Flask: reading request.form or request.files of a request longer than
\* MAX_CONTENT_LENGTH raises RequestEntityTooLarge
TooLarge(files) == TotalMB(files) > MAX_TOTAL_MB

\* the request exceeds one of the configured caps
OverCaps(files) ==
    \/ Len(NamedFiles(files)) > MAX_FILES
    \/ \E i \in 1..Len(files) : files[i].mb > MAX_FILE_MB
    \/ TotalMB(files) > MAX_TOTAL_MB

----------------------------------------------------------------------------
(* Sessions and the admin gate *)

Sessions == {"s1", "s2"}

NoSession == [admin_key |-> <<>>, unlocked_cards |-> <<>>]

\* _is_admin() without the test that ADMIN_KEY is configured
IsAdminNoFailClosed(s) == session[s].admin_key = adminKey

\* _is_admin()
IsAdmin(s) ==
    IF adminKey = <<>> THEN FALSE
    ELSE session[s].admin_key # <<>> /\ session[s].admin_key = adminKey

Req(op, s, sid, resp, exec) ==
    [op |-> op, s |-> s, sid |-> sid, resp |-> resp, exec |-> exec]

\* admin_required(): the wrapped handler runs for an admin, anyone else is
\* sent to the login page
AdminRequired(s, op, sid, Body) ==
    IF IsAdmin(s) THEN Body
    ELSE /\ last' = Req(op, s, sid, "to_login", FALSE)
         /\ UNCHANGED <<adminKey, csv, updirs, upfiles, session, raceVars>>

\* POST /admin/login
AdminLoginPost(s, key) ==
    LET k == Strip(key)
    IN /\ IF adminKey = <<>>
          THEN /\ last' = Req("admin_login_post", s, <<>>, "to_login", TRUE)
               /\ UNCHANGED session
          ELSE IF k = adminKey
               THEN /\ session' = [session EXCEPT ![s].admin_key = k]
                    /\ last' = Req("admin_login_post", s, <<>>, "to_admin", TRUE)
               ELSE /\ last' = Req("admin_login_post", s, <<>>, "to_login", TRUE)
                    /\ UNCHANGED session
       /\ UNCHANGED <<adminKey, storeVars, raceVars>>

\* GET /admin/logout
AdminLogout(s) ==
    /\ session' = [session EXCEPT ![s].admin_key = <<>>]
    /\ last' = Req("admin_logout", s, <<>>, "to_index", TRUE)
    /\ UNCHANGED <<adminKey, storeVars, raceVars>>

\* the append without the membership test
UnlockedAfterNoTest(unlocked, sid) == Append(unlocked, sid)

\* unlocked = list(...); if sid not in unlocked: unlocked.append(sid)
UnlockedAfter(unlocked, sid) ==
    IF sid \in Range(unlocked) THEN unlocked ELSE Append(unlocked, sid)

\* POST /unlock/<sid>
Unlock(s, sid, password) ==
    LET pw == Strip(password)
        rows == ReadAllRows(csv)
        ix == FindRow(rows, sid)
        expected == Strip(Get(rows[ix], PASSWORD))
        unlocked == session[s].unlocked_cards
    IN /\ IF ix = 0
          THEN /\ last' = Req("unlock", s, sid, "404", TRUE)
               /\ UNCHANGED session
          ELSE IF expected = <<>>
               THEN /\ last' = Req("unlock", s, sid, "to_index", TRUE)
                    /\ UNCHANGED session
               ELSE IF pw # <<>> /\ pw = expected
                    THEN /\ session' = [session EXCEPT ![s].unlocked_cards =
                                           UnlockedAfter(unlocked, sid)]
                         /\ last' = Req("unlock", s, sid, "to_index", TRUE)
                    ELSE /\ last' = Req("unlock", s, sid, "to_index_flash", TRUE)
                         /\ UNCHANGED session
       /\ UNCHANGED <<adminKey, storeVars, raceVars>>

\* uploads() testing only whether the session has unlocked anything
UploadsForbiddenAnyUnlock(s, sid) ==
    LET rows == ReadAllRows(csv)
        ix == FindRow(rows, sid)
    IN IF IsAdmin(s) THEN FALSE
       ELSE IF ix = 0 THEN FALSE
       ELSE IF Strip(Get(rows[ix], PASSWORD)) = <<>> THEN FALSE
       ELSE session[s].unlocked_cards = <<>>

\* the gate of uploads(): TRUE when the request is aborted with 403
UploadsForbidden(s, sid) ==
    LET rows == ReadAllRows(csv)
        ix == FindRow(rows, sid)
    IN IF IsAdmin(s) THEN FALSE
       ELSE IF ix = 0 THEN FALSE
       ELSE IF Strip(Get(rows[ix], PASSWORD)) = <<>> THEN FALSE
       ELSE sid \notin Range(session[s].unlocked_cards)

\* send_from_directory(UPLOADS_DIR / sid, filename): the file, or 404 when the
\* name steps out of the directory or names no regular file
SendFromDirectory(sid, filename) ==
    IF <<"..">> \notin Range(filename) /\ IsFile(upfiles, UPLOADS_DIR \o <<sid>> \o filename)
    THEN "200" ELSE "404"

\* GET /uploads/<sid>/<path:filename>
Uploads(s, sid, filename) ==
    /\ last' = Req("uploads", s, sid,
                   IF UploadsForbidden(s, sid) THEN "403" ELSE SendFromDirectory(sid, filename),
                   TRUE)
    /\ UNCHANGED <<adminKey, storeVars, session, raceVars>>

----------------------------------------------------------------------------
(* Admin handlers *)

\* GET /admin, GET /admin/new, GET /admin/edit/<sid>, GET /admin/csv: they
\* read the store and render
AdminIndex(s) ==
    AdminRequired(s, "admin_index", <<>>,
        /\ last' = Req("admin_index", s, <<>>, "200", TRUE)
        /\ UNCHANGED <<adminKey, storeVars, session, raceVars>>)

AdminNew(s) ==
    AdminRequired(s, "admin_new", <<>>,
        /\ last' = Req("admin_new", s, <<>>, "200", TRUE)
        /\ UNCHANGED <<adminKey, storeVars, session, raceVars>>)

AdminEdit(s, sid) ==
    AdminRequired(s, "admin_edit", sid,
        /\ last' = Req("admin_edit", s, sid,
                       IF FindRow(ReadAllRows(csv), sid) = 0 THEN "404" ELSE "200", TRUE)
        /\ UNCHANGED <<adminKey, storeVars, session, raceVars>>)

AdminCsvDownload(s) ==
    AdminRequired(s, "admin_csv_download", <<>>,
        /\ last' = Req("admin_csv_download", s, <<>>,
                       IF csv.exists THEN "200" ELSE "404", TRUE)
        /\ UNCHANGED <<adminKey, storeVars, session, raceVars>>)

\* _new_id(): the ten hex digits of a fresh uuid4, written here with two
NewIds == {<<"A", "A">>, <<"A", "B">>}

\* uuid.uuid4().hex[:6]
Hex6 == {"r"}

\* POST /admin/create
AdminCreate(s, title, price, description, password, files, sid, created, hex) ==
    AdminRequired(s, "admin_create", <<>>,
        IF TooLarge(files)
        THEN /\ last' = Req("admin_create", s, sid, "413", TRUE)
             /\ UNCHANGED <<adminKey, storeVars, session, raceVars>>
        ELSE LET named == NamedFiles(files)
                 sp == SavePhotos(FilesIn(upfiles, sid), named, <<"file">>, hex)
             IN /\ updirs' = IF named # <<>> THEN updirs \cup {sid} ELSE updirs
                /\ upfiles' = IF named # <<>>
                              THEN upfiles \cup {<<sid, n>> : n \in sp.files}
                              ELSE upfiles
                /\ csv' = SaveSubmissionRow(csv, sid, created, <<"material">>, Strip(title),
                                            Strip(price), <<>>, Strip(description),
                                            IF named # <<>> THEN sp.saved ELSE <<>>,
                                            Strip(password))
                /\ last' = Req("admin_create", s, sid, "to_edit", TRUE)
                /\ UNCHANGED <<adminKey, session, raceVars>>)

\* the rows admin_save() writes
SavedRows(rows, ix, title, price, description, password, photos) ==
    LET r0 == rows[ix]
        r1 == Put(r0, KIND, IF Get(r0, KIND) = <<>> THEN <<"material">> ELSE Get(r0, KIND))
        r2 == Put(r1, TITLE, Strip(title))
        r3 == Put(r2, PRICE, Strip(price))
        r4 == Put(r3, DESCRIPTION, Strip(description))
        r5 == Put(r4, PASSWORD, Strip(password))
        r6 == Put(r5, PHOTOS, JoinSemi(photos))
    IN [rows EXCEPT ![ix] = r6]

\* POST /admin/save/<sid>
AdminSave(s, sid, title, price, description, password) ==
    AdminRequired(s, "admin_save", sid,
        LET rows == ReadAllRows(csv)
            ix == FindRow(rows, sid)
        IN IF ix = 0
           THEN /\ last' = Req("admin_save", s, sid, "404", TRUE)
                /\ UNCHANGED <<adminKey, storeVars, session, raceVars>>
           ELSE /\ csv' = WriteAllRows(SavedRows(rows, ix, title, price, description, password,
                                                 ListPhotos(updirs, upfiles, sid)))
                /\ last' = Req("admin_save", s, sid, "to_edit", TRUE)
                /\ UNCHANGED <<adminKey, updirs, upfiles, session, raceVars>>)

\* rows2 = [r for r in rows if (r.get("id") or "").strip() != sid]
RowsWithout(rows, sid) == SelectSeq(rows, LAMBDA r : Strip(Get(r, ID)) # sid)

\* POST /admin/delete/<sid>
AdminDelete(s, sid) ==
    AdminRequired(s, "admin_delete", sid,
        /\ csv' = WriteAllRows(RowsWithout(ReadAllRows(csv), sid))
        /\ updirs' = updirs \ {sid}
        /\ upfiles' = {f \in upfiles : f[1] # sid}
        /\ last' = Req("admin_delete", s, sid, "to_admin", TRUE)
        /\ UNCHANGED <<adminKey, session, raceVars>>)

\* the rows with row ix's photos field set to the directory listing
ResyncedRows(rows, ix, photos) == [rows EXCEPT ![ix] = Put(rows[ix], PHOTOS, JoinSemi(photos))]

\* POST /admin/photo_delete/<sid>/<path:filename>
AdminPhotoDelete(s, sid, filename) ==
    AdminRequired(s, "admin_photo_delete", sid,
        IF ~PhotoDeleteAllowed(sid, filename)
        THEN /\ last' = Req("admin_photo_delete", s, sid, "400", TRUE)
             /\ UNCHANGED <<adminKey, storeVars, session, raceVars>>
        ELSE LET p == Resolve(UPLOADS_DIR \o <<sid>> \o filename)
                 left == IF IsFile(upfiles, p)
                         THEN upfiles \ {<<p[Len(p) - 1], p[Len(p)]>>}
                         ELSE upfiles
                 rows == ReadAllRows(csv)
                 ix == FindRow(rows, sid)
             IN /\ upfiles' = left
                /\ csv' = IF ix # 0
                          THEN WriteAllRows(ResyncedRows(rows, ix, ListPhotos(updirs, left, sid)))
                          ELSE csv
                /\ last' = Req("admin_photo_delete", s, sid, "to_edit", TRUE)
                /\ UNCHANGED <<adminKey, updirs, session, raceVars>>)

\* POST /admin/upload/<sid>
AdminUpload(s, sid, files, hex) ==
    AdminRequired(s, "admin_upload", sid,
        IF TooLarge(files)
        THEN /\ last' = Req("admin_upload", s, sid, "413", TRUE)
             /\ UNCHANGED <<adminKey, storeVars, session, raceVars>>
        ELSE IF NamedFiles(files) = <<>>
        THEN /\ last' = Req("admin_upload", s, sid, "to_edit_flash", TRUE)
             /\ UNCHANGED <<adminKey, storeVars, session, raceVars>>
        ELSE LET sp == SavePhotos(FilesIn(upfiles, sid), NamedFiles(files), <<"photo", ".jpg">>, hex)
                 dirs2 == updirs \cup {sid}
                 files2 == upfiles \cup {<<sid, n>> : n \in sp.files}
                 rows == ReadAllRows(csv)
                 ix == FindRow(rows, sid)
             IN /\ updirs' = dirs2
                /\ upfiles' = files2
                /\ csv' = IF ix # 0
                          THEN WriteAllRows(ResyncedRows(rows, ix, ListPhotos(dirs2, files2, sid)))
                          ELSE csv
                /\ last' = Req("admin_upload", s, sid, "to_edit", TRUE)
                /\ UNCHANGED <<adminKey, session, raceVars>>)

----------------------------------------------------------------------------
(* Requests the model submits *)

KEY == <<"k">>
LoginKeys == {KEY, <<" ", "k">>, <<"x">>, <<>>}
StoredPasswords == {<<>>, <<"p">>}
TypedPasswords == {<<"p">>, <<"p", " ">>, <<"q">>, <<>>}
Titles == {<<"t">>}
Prices == {<<"1">>}
Descriptions == {<<"d">>}
Timestamps == {<<"T1">>}

PhotoA == <<"a", ".jpg">>

\* the ids of the listings, and an id that is a prefix of both
ReqSids == NewIds \cup {<<"A">>}

FetchPaths == {<<PhotoA>>}
DeletePaths == {<<PhotoA>>, << <<"..">>, <<"A", "A">>, PhotoA >>}

\* the file parts of a multipart request: the client's filename and the size
FileParts ==
    { [filename |-> PhotoA, mb |-> 1],
      [filename |-> PhotoA, mb |-> 2],
      [filename |-> <<"..", "/", "a", ".jpg">>, mb |-> 1] }

\* the requests of up to MaxUpload parts: any one part, or several photos
UploadLists ==
    UNION {[1..n -> IF n = 1 THEN FileParts ELSE {p \in FileParts : p.filename = PhotoA}] :
              n \in 0..MaxUpload}

Workers == {"w1", "w2"}
Idle == [pc |-> "idle", op |-> "none", sid |-> <<>>, out |-> <<>>, fd |-> 0]

Init ==
    /\ adminKey \in {<<>>, KEY}
    /\ csv = NoFile
    /\ updirs = {}
    /\ upfiles = {}
    /\ session = [s \in Sessions |-> NoSession]
    /\ last = Req("start", "s1", <<>>, "200", FALSE)
    /\ tmp = 0
    /\ live = 0
    /\ inodes = <<>>
    /\ wk = [w \in Workers |-> Idle]

\* the login, from the browsers SS
LoginStep(SS) ==
    \/ \E s \in SS, key \in LoginKeys : AdminLoginPost(s, key)
    \/ \E s \in SS : AdminLogout(s)

\* the public requests, from the browsers SS on the ids SIDS
PublicStep(SS, SIDS) ==
    \/ \E s \in SS, sid \in SIDS, pw \in TypedPasswords : Unlock(s, sid, pw)
    \/ \E s \in SS, sid \in SIDS, fn \in FetchPaths : Uploads(s, sid, fn)

\* create (drawing the new id from IDS), save and delete, with the passwords PWS
EditStep(SS, IDS, SIDS, LISTS, PWS, rowsMax) ==
    \/ /\ Len(ReadAllRows(csv)) < rowsMax
       /\ \E s \in SS, t \in Titles, pr \in Prices, d \in Descriptions,
             pw \in PWS, files \in LISTS, sid \in IDS,
             ts \in Timestamps, hex \in Hex6 :
               AdminCreate(s, t, pr, d, pw, files, sid, ts, hex)
    \/ \E s \in SS, sid \in SIDS, t \in Titles, pr \in Prices, d \in Descriptions,
          pw \in PWS : AdminSave(s, sid, t, pr, d, pw)
    \/ \E s \in SS, sid \in SIDS : AdminDelete(s, sid)

\* the admin pages, and the photo requests
PanelStep(SS, SIDS, DSIDS, LISTS, PATHS) ==
    \/ \E s \in SS : AdminIndex(s)
    \/ \E s \in SS : AdminNew(s)
    \/ \E s \in SS, sid \in SIDS : AdminEdit(s, sid)
    \/ \E s \in SS : AdminCsvDownload(s)
    \/ \E s \in SS, sid \in DSIDS, fn \in PATHS : AdminPhotoDelete(s, sid, fn)
    \/ \E s \in SS, sid \in SIDS, files \in LISTS, hex \in Hex6 : AdminUpload(s, sid, files, hex)

\* no file chosen (the browser sends one part with no filename), or one photo
NoPhoto == {<<[filename |-> <<>>, mb |-> 0]>>}
OnePhoto == NoPhoto \cup {<<[filename |-> PhotoA, mb |-> 1]>>}

\* the administrator's browser s1 and a visitor's browser s2: login, unlock,
\* photo fetch, create, save, delete
Next ==
    \/ LoginStep({"s1"})
    \/ PublicStep(Sessions, NewIds)
    \/ EditStep({"s1"}, NewIds, NewIds, OnePhoto, StoredPasswords, MaxRows)

Spec == Init /\ [][Next]_vars

\* the visitor's unlock requests, while the administrator creates, saves and
\* deletes listings
NextUnlock ==
    \/ LoginStep({"s1"})
    \/ \E sid \in NewIds, pw \in TypedPasswords : Unlock("s2", sid, pw)
    \/ EditStep({"s1"}, NewIds, NewIds, NoPhoto, StoredPasswords, MaxRows)

SpecUnlock == Init /\ [][NextUnlock]_vars

\* the admin panel, every admin-only route, from two browsers
NextAdmin ==
    \/ LoginStep(Sessions)
    \/ EditStep(Sessions, NewIds, NewIds, OnePhoto, {<<>>}, MaxRows)
    \/ PanelStep(Sessions, NewIds, NewIds, OnePhoto, {<<PhotoA>>})

SpecAdmin == Init /\ [][NextAdmin]_vars

\* the administrator's browser alone, with every upload and every path
NextPhotos ==
    \/ \E key \in {KEY} : AdminLoginPost("s1", key)
    \/ EditStep({"s1"}, NewIds, NewIds, UploadLists, StoredPasswords, MaxListings)
    \/ PanelStep({"s1"}, NewIds, ReqSids, UploadLists, DeletePaths)

SpecPhotos == Init /\ [][NextPhotos]_vars

----------------------------------------------------------------------------
(* The header migration on store files of earlier versions *)

Legacy == SubSeq(Columns, 1, Len(Columns) - 1)
Swapped(h) == <<h[2], h[1]>> \o SubSeq(h, 3, Len(h))

\* headers a store file may carry: the expected one, the one without the
\* password column, and headers that differ in other ways
OldHeaders ==
    { Columns,
      Legacy,
      Swapped(Legacy),
      Swapped(Columns),
      SubSeq(Columns, 1, Len(Columns) - 2),
      << <<"name">>, <<"email">> >> }

OldLines ==
    { <<<<"A", "A">>, <<"T1">>, <<"sell">>, <<"t">>, <<"1">>, <<"7">>, <<"d">>, <<>>>>,
      <<<<"A", "B">>, <<"T1">>, <<"sell">>, <<"t">>, <<"1">>, <<"7">>, <<"d">>, PhotoA, <<"p">>>>,
      <<<<"x">>>>,
      <<>> }

OldFiles ==
    {NoFile, File(<<>>)}
        \cup {File(<<h>> \o body) :
                h \in OldHeaders, body \in UNION {[1..n -> OldLines] : n \in 0..MaxOldRows}}

InitMig ==
    /\ adminKey = KEY
    /\ csv \in OldFiles
    /\ updirs = {}
    /\ upfiles = {}
    /\ session = [s \in Sessions |-> NoSession]
    /\ last = Req("start", "s1", <<>>, "200", FALSE)
    /\ tmp = 0
    /\ live = 0
    /\ inodes = <<>>
    /\ wk = [w \in Workers |-> Idle]

\* _ensure_csv_header(), as _save_submission_row() runs it first
EnsureStep ==
    /\ csv' = EnsureCsvHeader(csv)
    /\ last' = Req("ensure_csv_header", "s1", <<>>,
                   IF csv' = csv THEN "untouched" ELSE "rewritten", TRUE)
    /\ UNCHANGED <<adminKey, updirs, upfiles, session, raceVars>>

NextMig == EnsureStep

SpecMig == InitMig /\ [][NextMig]_vars

----------------------------------------------------------------------------
(* Two workers: the steps of a read-modify-write request on the store file.  *)
(* The store is smaller than the io buffer, so a writer's lines reach the    *)
(* file in one write when it closes the file.                                *)

AA == <<"A", "A">>
AB == <<"A", "B">>

\* the store after create(AA, one photo) and create(AB, password "p")
RaceLines ==
    SaveSubmissionRow(
        SaveSubmissionRow(NoFile, AA, <<"T1">>, <<"material">>, <<"t">>, <<"1">>, <<>>, <<"d">>,
                          <<PhotoA>>, <<>>),
        AB, <<"T1">>, <<"material">>, <<"t">>, <<"1">>, <<>>, <<"d">>, <<>>, <<"p">>).lines

InitRace ==
    /\ adminKey = KEY
    /\ csv = File(RaceLines)
    /\ updirs = {AA}
    /\ upfiles = {<<AA, PhotoA>>}
    /\ session = [s \in Sessions |-> IF s = "s1" THEN [admin_key |-> KEY, unlocked_cards |-> <<>>]
                                     ELSE NoSession]
    /\ last = Req("start", "s1", <<>>, "200", FALSE)
    /\ tmp = 0
    /\ live = 1
    /\ inodes = <<RaceLines>>
    /\ wk = [w \in Workers |-> Idle]

\* what a reader of SUBMISSIONS_CSV finds
LiveFile(lv, ino) == IF lv = 0 THEN NoFile ELSE File(ino[lv])

\* the handler up to the call of _write_all_rows(): out holds the lines to
\* write, <<>> when the handler writes nothing
Started(w, op, sid, out) ==
    wk' = [wk EXCEPT ![w] = [pc |-> IF out = <<>> THEN "done" ELSE "open",
                             op |-> op, sid |-> sid, out |-> out, fd |-> 0]]

\* admin_save() up to the write
BeginSave(w, sid, title, price, description, password) ==
    LET rows == ReadAllRows(csv)
        ix == FindRow(rows, sid)
    IN /\ wk[w].pc = "idle"
       /\ IsAdmin("s1")
       /\ Started(w, "admin_save", sid,
                  IF ix = 0 THEN <<>>
                  ELSE RowLines(SavedRows(rows, ix, title, price, description, password,
                                          ListPhotos(updirs, upfiles, sid))))
       /\ UNCHANGED <<adminKey, csv, updirs, upfiles, session, last, tmp, live, inodes>>

\* admin_delete() up to the write
BeginDelete(w, sid) ==
    /\ wk[w].pc = "idle"
    /\ IsAdmin("s1")
    /\ Started(w, "admin_delete", sid, RowLines(RowsWithout(ReadAllRows(csv), sid)))
    /\ UNCHANGED <<adminKey, csv, updirs, upfiles, session, last, tmp, live, inodes>>

\* admin_photo_delete() up to the write
BeginPhotoDelete(w, sid, filename) ==
    LET p == Resolve(UPLOADS_DIR \o <<sid>> \o filename)
        left == IF IsFile(upfiles, p) THEN upfiles \ {<<p[Len(p) - 1], p[Len(p)]>>} ELSE upfiles
        rows == ReadAllRows(csv)
        ix == FindRow(rows, sid)
    IN /\ wk[w].pc = "idle"
       /\ IsAdmin("s1")
       /\ PhotoDeleteAllowed(sid, filename)
       /\ upfiles' = left
       /\ Started(w, "admin_photo_delete", sid,
                  IF ix = 0 THEN <<>>
                  ELSE RowLines(ResyncedRows(rows, ix, ListPhotos(updirs, left, sid))))
       /\ UNCHANGED <<adminKey, csv, updirs, session, last, tmp, live, inodes>>

\* admin_upload() up to the write
BeginUpload(w, sid, files, hex) ==
    LET sp == SavePhotos(FilesIn(upfiles, sid), NamedFiles(files), <<"photo", ".jpg">>, hex)
        dirs2 == updirs \cup {sid}
        files2 == upfiles \cup {<<sid, n>> : n \in sp.files}
        rows == ReadAllRows(csv)
        ix == FindRow(rows, sid)
    IN /\ wk[w].pc = "idle"
       /\ IsAdmin("s1")
       /\ ~TooLarge(files)
       /\ NamedFiles(files) # <<>>
       /\ updirs' = dirs2
       /\ upfiles' = files2
       /\ Started(w, "admin_upload", sid,
                  IF ix = 0 THEN <<>>
                  ELSE RowLines(ResyncedRows(rows, ix, ListPhotos(dirs2, files2, sid))))
       /\ UNCHANGED <<adminKey, csv, session, last, tmp, live, inodes>>

\* tmp.open("w"): the one path SUBMISSIONS_CSV.with_suffix(".tmp") is created,
\* or truncated when it is there
OpenTmp(w) ==
    /\ wk[w].pc = "open"
    /\ IF tmp = 0
       THEN /\ inodes' = Append(inodes, <<>>)
            /\ tmp' = Len(inodes) + 1
       ELSE /\ inodes' = [inodes EXCEPT ![tmp] = <<>>]
            /\ tmp' = tmp
    /\ wk' = [wk EXCEPT ![w].pc = "write", ![w].fd = tmp']
    /\ csv' = LiveFile(live, inodes')
    /\ UNCHANGED <<adminKey, updirs, upfiles, session, last, live>>

\* the with block ends: the buffered lines are written at offset 0 of the open
\* file, over what is there
WriteClose(w) ==
    LET old == inodes[wk[w].fd]
        out == wk[w].out
    IN /\ wk[w].pc = "write"
       /\ inodes' = [inodes EXCEPT ![wk[w].fd] =
                        out \o (IF Len(old) > Len(out) THEN SubSeq(old, Len(out) + 1, Len(old))
                                ELSE <<>>)]
       /\ wk' = [wk EXCEPT ![w].pc = "replace"]
       /\ csv' = LiveFile(live, inodes')
       /\ UNCHANGED <<adminKey, updirs, upfiles, session, last, tmp, live>>

\* tmp.replace(SUBMISSIONS_CSV): FileNotFoundError when the path is gone
Replace(w) ==
    /\ wk[w].pc = "replace"
    /\ IF tmp = 0
       THEN /\ wk' = [wk EXCEPT ![w].pc = "failed"]
            /\ last' = Req(wk[w].op, w, wk[w].sid, "500", TRUE)
            /\ UNCHANGED <<csv, tmp, live>>
       ELSE /\ live' = tmp
            /\ tmp' = 0
            /\ csv' = LiveFile(tmp, inodes)
            /\ wk' = [wk EXCEPT ![w].pc = IF wk[w].op = "admin_delete" THEN "rmtree" ELSE "done"]
            /\ last' = Req(wk[w].op, w, wk[w].sid, "replaced", TRUE)
    /\ UNCHANGED <<adminKey, updirs, upfiles, session, inodes>>

\* admin_delete() after the write: shutil.rmtree(d)
Rmtree(w) ==
    /\ wk[w].pc = "rmtree"
    /\ updirs' = updirs \ {wk[w].sid}
    /\ upfiles' = {f \in upfiles : f[1] # wk[w].sid}
    /\ wk' = [wk EXCEPT ![w].pc = "done"]
    /\ UNCHANGED <<adminKey, csv, session, last, tmp, live, inodes>>

NextRace ==
    \/ \E w \in Workers, sid \in NewIds, t \in {<<"t2">>}, pr \in Prices, d \in Descriptions,
          pw \in StoredPasswords : BeginSave(w, sid, t, pr, d, pw)
    \/ \E w \in Workers, sid \in NewIds : BeginDelete(w, sid)
    \/ \E w \in Workers, sid \in NewIds, fn \in FetchPaths : BeginPhotoDelete(w, sid, fn)
    \/ \E w \in Workers, sid \in NewIds, files \in OnePhoto, hex \in Hex6 :
          BeginUpload(w, sid, files, hex)
    \/ \E w \in Workers : OpenTmp(w)
    \/ \E w \in Workers : WriteClose(w)
    \/ \E w \in Workers : Replace(w)
    \/ \E w \in Workers : Rmtree(w)

SpecRace == InitRace /\ [][NextRace]_vars

----------------------------------------------------------------------------
(* Claims *)

\* what the store holds for a listing id
Listed(sid) == FindRow(ReadAllRows(csv), sid) # 0
StoredPassword(sid) ==
    LET rows == ReadAllRows(csv)
    IN IF Listed(sid) THEN Get(rows[FindRow(rows, sid)], PASSWORD) ELSE <<>>
HoldsAdminProof(s) == adminKey # <<>> /\ session[s].admin_key = adminKey
HasUnlocked(s, sid) == \E i \in 1..Len(session[s].unlocked_cards) : session[s].unlocked_cards[i] = sid

AdminOps ==
    {"admin_index", "admin_new", "admin_create", "admin_edit", "admin_save", "admin_delete",
     "admin_photo_delete", "admin_upload", "admin_csv_download"}

\* C1: a photo fetch is answered 403 exactly when the session holds no admin
\* proof, the listing's stored password is not empty (a listing without a record
\* has none) and the id is not in the session's unlock set; so a file is served
\* only with admin proof, an empty password or an unlocked id.
C1_PhotoGate ==
    last.op = "uploads" =>
        LET open == \/ HoldsAdminProof(last.s)
                    \/ StoredPassword(last.sid) = <<>>
                    \/ HasUnlocked(last.s, last.sid)
        IN /\ (last.resp = "403") <=> ~open
           /\ (last.resp = "200") => open

\* C1 witness: a visitor is served the photo of a password-protected listing
\* it has unlocked.
C1_Witness ==
    /\ last.op = "uploads"
    /\ last.resp = "200"
    /\ ~HoldsAdminProof(last.s)
    /\ StoredPassword(last.sid) # <<>>
    /\ HasUnlocked(last.s, last.sid)

\* the unlock set an unlock request must leave, given when a submission counts
UnlockPost(s, sid, matches) ==
    LET before == session[s].unlocked_cards
    IN /\ session'[s].unlocked_cards =
            IF Listed(sid) /\ StoredPassword(sid) # <<>> /\ matches /\ ~HasUnlocked(s, sid)
            THEN Append(before, sid) ELSE before
       /\ \A o \in Sessions \ {s} : session'[o] = session[o]
       /\ session'[s].admin_key = session[s].admin_key

GateStep ==
    last'.op \in AdminOps =>
        /\ last'.exec => HoldsAdminProof(last'.s)
        /\ adminKey = <<>> => ~last'.exec
        /\ ~HoldsAdminProof(last'.s) =>
              /\ ~last'.exec
              /\ last'.resp = "to_login"
              /\ UNCHANGED storeVars

\* a session comes to hold an admin key only in a login request of its own, and
\* the key it then holds is the configured secret
ObtainStep ==
    \A s \in Sessions :
        (session'[s].admin_key # session[s].admin_key /\ session'[s].admin_key # <<>>) =>
            /\ last'.op = "admin_login_post"
            /\ last'.s = s
            /\ adminKey # <<>>
            /\ session'[s].admin_key = adminKey

\* C2 as claimed: admin-only operations execute only with the admin proof, any
\* other session is redirected to the login page with the store and the photo
\* directories unchanged, nothing executes with the secret unconfigured, and a
\* login sets the admin session only when it submits exactly the secret.
C2_AsClaimed ==
    [][/\ GateStep
       /\ ObtainStep
       /\ last'.op = "admin_login_post" =>
             \A key \in LoginKeys :
                (AdminLoginPost(last'.s, key) /\ key # adminKey) => session' = session]_vars

\* C2 amended: as claimed, except that a login sets the admin session when the
\* submitted key with its surrounding whitespace stripped equals the secret
\* (submitting the secret padded with spaces logs in); a key that differs from
\* the secret after stripping sets no admin session.
C2_AdminGate ==
    [][/\ GateStep
       /\ ObtainStep
       /\ last'.op = "admin_login_post" =>
             \A key \in LoginKeys :
                (AdminLoginPost(last'.s, key) /\ Strip(key) # adminKey) => session' = session]_vars

\* C2 witness: an admin-only request has executed for the session that logged
\* in, while the other browser holds no admin key.
C2_Witness ==
    /\ last.op = "admin_upload"
    /\ last.exec
    /\ last.resp = "to_edit"
    /\ HoldsAdminProof(last.s)
    /\ \E o \in Sessions \ {last.s} : ~HoldsAdminProof(o)

\* the file with the password column appended to the header and an empty
\* value appended to every other line
Backfilled(f) ==
    /\ f.exists
    /\ Len(csv'.lines) = Len(f.lines)
    /\ csv'.lines[1] = f.lines[1] \o <<PASSWORD>>
    /\ \A i \in 2..Len(f.lines) : csv'.lines[i] = f.lines[i] \o << <<>> >>

\* headers that differ from the expected one only by lacking its newest columns
LacksNewestOnly(h) == Len(h) < Len(Columns) /\ h = SubSeq(Columns, 1, Len(h))

C3_CapsRejectWhole ==
    [][(last'.op \in {"admin_create", "admin_upload"} /\ last'.exec) =>
          \A files \in UploadLists :
             (/\ OverCaps(files)
              /\ \/ \E t \in Titles, pr \in Prices, d \in Descriptions, pw \in StoredPasswords,
                       ts \in Timestamps, hex \in Hex6 :
                          AdminCreate(last'.s, t, pr, d, pw, files, last'.sid, ts, hex)
                 \/ \E hex \in Hex6 : AdminUpload(last'.s, last'.sid, files, hex))
             => (UNCHANGED storeVars /\ last'.resp # "to_edit")]_vars

\* C4: no two records of the store have the same id (a create never reuses the
\* id, and with it the photo directory, of an existing record).
C4_UniqueIds ==
    LET rows == ReadAllRows(csv)
    IN \A i, j \in 1..Len(rows) : i # j => Strip(Get(rows[i], ID)) # Strip(Get(rows[j], ID))

\* C5: after create with files, upload, photo_delete or save on a listing that
\* has a record, the record's photos field names exactly the regular files in
\* the listing's directory.
C5_PhotosInSync ==
    LET rows == ReadAllRows(csv)
        InSync(r) == Range(PhotosOf(r)) = FilesIn(upfiles, last.sid)
    IN (last.exec /\ last.resp = "to_edit" /\ Listed(last.sid)) =>
          /\ last.op \in {"admin_upload", "admin_photo_delete", "admin_save"}
                => InSync(rows[FindRow(rows, last.sid)])
          /\ (last.op = "admin_create" /\ PhotosOf(rows[Len(rows)]) # <<>>)
                => /\ InSync(rows[Len(rows)])
                   /\ InSync(rows[FindRow(rows, last.sid)])

\* C6: once delete(id) has completed, the store has no record with that id and
\* the listing's photo directory does not exist, and that stays so as long as
\* no create produces the id again.
C6_DeletedStaysGone ==
    [][(last.op = "admin_delete" /\ last.exec) =>
          /\ FindRow(ReadAllRows(csv), last.sid) = 0
          /\ last.sid \notin updirs
          /\ ~(last'.op = "admin_create" /\ last'.exec /\ last'.sid = last.sid) =>
                /\ FindRow(ReadAllRows(csv'), last.sid) = 0
                /\ last.sid \notin updirs']_vars

\* C8: photo_delete(id, filename) removes a file only from the directory of
\* listing id, whatever the filename ("..") and whether or not id is a prefix of
\* another listing's id; it removes nothing when the target is absent.
C8_DeleteStaysInside ==
    [][last'.op = "admin_photo_delete" =>
          /\ \A f \in upfiles \ upfiles' : f[1] = last'.sid
          /\ upfiles' \subseteq upfiles
          /\ updirs' = updirs]_vars

\* C10: two read-modify-write requests on the store run in two workers with
\* their file steps interleaved: both complete, the live file always holds a
\* complete row set (the one found at the start or the one a writer wrote,
\* never a truncated file or a mixture), and once both are done it holds the
\* rows of the writer whose replace came last.
C10_LastWriterWins ==
    /\ csv.exists
    /\ csv.lines \in {RaceLines} \cup {wk[w].out : w \in {v \in Workers : wk[v].out # <<>>}}
    /\ \A w \in Workers : wk[w].pc # "failed"
    /\ (\A w \in Workers : wk[w].pc = "done") =>
          (last.resp = "replaced" => csv.lines = wk[last.s].out)

====
